---- MODULE Spec2Model ----
(***************************************************************************)
(* DeformingPlateDataset (physicsnemo/datapipes/gnn/                       *)
(* deforming_plate_dataset.py): the construction of the dataset, its       *)
(* lookups, and the pure functions they are built from.                    *)
(***************************************************************************)
EXTENDS Integers, Sequences, FiniteSets, TLC

(***************************************************************************)
(* Bounds of the model.                                                    *)
(***************************************************************************)
MaxSamples == 2
MaxSteps == 3
MaxCells == 2
MaxNodeId == 3
MaxNodes == 3
MaxWidth == 3
MaxStatSamples == 6

(***************************************************************************)
(* float32 arithmetic (dtype=torch.float, numpy float32).  A value is a    *)
(* record: k = "fin" with the value m * 2^e (m = 0 and e = 0, or m odd,    *)
(* |m| < 2^24), k = "inf" with the sign in m, or k = "nan".  Every         *)
(* operation rounds to nearest, ties to even, on a 24-bit significand.     *)
(* The exponent range is not bounded: no value of the model comes near     *)
(* the overflow or the subnormal range.  TLC's integers are 32 bits wide,  *)
(* so the operations never form an intermediate of 2^31 or more.           *)
(***************************************************************************)
Precision == 24

\* The recursions below take several bits a step to stay shallow.
RECURSIVE Pow2(_)
Pow2(n) ==
  IF n <= 0 THEN 1
  ELSE IF n >= 8 THEN 256 * Pow2(n - 8)
  ELSE 2 * Pow2(n - 1)

RECURSIVE BitLen(_)
BitLen(n) ==
  IF n <= 0 THEN 0
  ELSE IF n >= 256 THEN 8 + BitLen(n \div 256)
  ELSE 1 + BitLen(n \div 2)

Abs(n) == IF n < 0 THEN 0 - n ELSE n

Sgn(n) == IF n < 0 THEN 0 - 1 ELSE IF n > 0 THEN 1 ELSE 0

NaN == [k |-> "nan", m |-> 0, e |-> 0]

Inf(s) == [k |-> "inf", m |-> s, e |-> 0]

RECURSIVE Canon(_, _)
Canon(m, e) ==
  IF m = 0 THEN [k |-> "fin", m |-> 0, e |-> 0]
  ELSE IF m % 256 = 0 THEN Canon(m \div 256, e + 8)
  ELSE IF m % 2 = 0 THEN Canon(m \div 2, e + 1)
  ELSE [k |-> "fin", m |-> m, e |-> e]

\* The float32 nearest to s * (M + d) * 2^e, where M >= 0 is an integer and
\* 0 < d < 1 when sticky, d = 0 otherwise.  With sticky, M has at least
\* Precision + 2 bits.
RoundNE(s, M, e, sticky) ==
  LET n == BitLen(M)
  IN IF n <= Precision THEN Canon(s * M, e)
     ELSE LET sh == n - Precision
              q == M \div Pow2(sh)
              r == M % Pow2(sh)
              half == Pow2(sh - 1)
              up == \/ r > half
                    \/ r = half /\ sticky
                    \/ r = half /\ ~sticky /\ q % 2 = 1
          IN Canon(s * (IF up THEN q + 1 ELSE q), e + sh)

FromInt(n) == RoundNE(Sgn(n), Abs(n), 0, FALSE)

IsFin(a) == a.k = "fin"

IsZero(a) == a.k = "fin" /\ a.m = 0

IsNaN(a) == a.k = "nan"

FNeg(a) ==
  IF a.k = "nan" THEN a
  ELSE IF a.k = "inf" THEN Inf(0 - a.m)
  ELSE [a EXCEPT !.m = 0 - a.m]

\* a + b for finite non-zero a, b whose leading bit of a is not below b's:
\* both are aligned on a frame of Precision + 3 bits under a's leading bit;
\* the bits of b under the frame are kept as a sticky bit.
FAddAligned(a, b) ==
  LET f == BitLen(Abs(a.m)) + a.e - (Precision + 3)
      A == a.m * Pow2(a.e - f)
      low == f - b.e
      B == IF low <= 0 THEN b.m * Pow2(0 - low)
           ELSE IF low >= 30 THEN 0
           ELSE Sgn(b.m) * (Abs(b.m) \div Pow2(low))
      sticky == IF low <= 0 THEN FALSE
                ELSE IF low >= 30 THEN TRUE
                ELSE Abs(b.m) % Pow2(low) # 0
      S == A + B
      sg == IF S = 0 THEN Sgn(b.m) ELSE Sgn(S)
      M == IF sticky /\ sg # Sgn(b.m) THEN Abs(S) - 1 ELSE Abs(S)
  IN RoundNE(sg, M, f, sticky)

FAdd(a, b) ==
  IF a.k = "nan" \/ b.k = "nan" THEN NaN
  ELSE IF a.k = "inf" /\ b.k = "inf" THEN (IF a.m = b.m THEN a ELSE NaN)
  ELSE IF a.k = "inf" THEN a
  ELSE IF b.k = "inf" THEN b
  ELSE IF a.m = 0 THEN b
  ELSE IF b.m = 0 THEN a
  ELSE IF BitLen(Abs(a.m)) + a.e >= BitLen(Abs(b.m)) + b.e
       THEN FAddAligned(a, b)
       ELSE FAddAligned(b, a)

FSub(a, b) == FAdd(a, FNeg(b))

\* |a.m| * |b.m| as H * 2^24 + L with L < 2^24, from 12-bit halves.
MulHi(x, y) ==
  LET xh == x \div 4096
      xl == x % 4096
      yh == y \div 4096
      yl == y % 4096
      mid == xh * yl + xl * yh
      low == (mid % 4096) * 4096 + xl * yl
  IN xh * yh + mid \div 4096 + low \div 16777216

MulLo(x, y) ==
  LET xh == x \div 4096
      xl == x % 4096
      yh == y \div 4096
      yl == y % 4096
      mid == xh * yl + xl * yh
      low == (mid % 4096) * 4096 + xl * yl
  IN low % 16777216

FMul(a, b) ==
  IF a.k = "nan" \/ b.k = "nan" THEN NaN
  ELSE IF a.k = "inf" \/ b.k = "inf"
       THEN (IF IsZero(a) \/ IsZero(b) THEN NaN ELSE Inf(Sgn(a.m) * Sgn(b.m)))
  ELSE LET x == Abs(a.m)
           y == Abs(b.m)
           sg == Sgn(a.m) * Sgn(b.m)
           H == MulHi(x, y)
           L == MulLo(x, y)
           s == BitLen(H)
       IN IF H = 0 THEN RoundNE(sg, L, a.e + b.e, FALSE)
          ELSE LET q == H * Pow2(Precision - s) + L \div Pow2(s)
                   r == L % Pow2(s)
                   \* two more bits of the product, and the rest as sticky
                   g == IF s >= 2 THEN r \div Pow2(s - 2) ELSE r * Pow2(2 - s)
                   rest == IF s >= 2 THEN r % Pow2(s - 2) ELSE 0
               IN RoundNE(sg, q * 4 + g, a.e + b.e + s - 2, rest # 0)

\* floor(x * 2^k / y) and whether the division left a remainder.
RECURSIVE DivQ(_, _, _)
DivQ(x, y, k) ==
  IF k = 0 THEN <<x \div y, x % y>>
  ELSE IF k >= 6
       THEN LET p == DivQ(x, y, k - 6)
                r64 == 64 * p[2]
            IN <<64 * p[1] + r64 \div y, r64 % y>>
  ELSE LET p == DivQ(x, y, k - 1)
           r2 == 2 * p[2]
       IN <<2 * p[1] + r2 \div y, r2 % y>>

FDiv(a, b) ==
  IF a.k = "nan" \/ b.k = "nan" THEN NaN
  ELSE IF a.k = "inf" THEN (IF b.k = "inf" THEN NaN
                            ELSE Inf(a.m * (IF b.m < 0 THEN 0 - 1 ELSE 1)))
  ELSE IF b.k = "inf" THEN Canon(0, 0)
  ELSE IF b.m = 0 THEN (IF a.m = 0 THEN NaN ELSE Inf(Sgn(a.m)))
  ELSE IF a.m = 0 THEN a
  ELSE LET x == Abs(a.m)
           y == Abs(b.m)
           k == Precision + 2 + BitLen(y) - BitLen(x)
           p == DivQ(x, y, k)
       IN RoundNE(Sgn(a.m) * Sgn(b.m), p[1], a.e - b.e - k, p[2] # 0)

\* floor(sqrt(n)) for n < 2^26, two bits of the root a step.
RECURSIVE ISqrt(_)
ISqrt(n) ==
  IF n < 4 THEN (IF n = 0 THEN 0 ELSE 1)
  ELSE LET s == 4 * ISqrt(n \div 16)
       IN IF (s + 3) * (s + 3) <= n THEN s + 3
          ELSE IF (s + 2) * (s + 2) <= n THEN s + 2
          ELSE IF (s + 1) * (s + 1) <= n THEN s + 1
          ELSE s

\* <<r, rem>> with r = floor(sqrt(n * 4^t)) and rem = n * 4^t - r^2, for
\* r < 2^26: one bit of the root a step when t is odd, then two a step.
RECURSIVE SqrtQ(_, _)
SqrtQ(n, t) ==
  IF t = 0 THEN <<ISqrt(n), n - ISqrt(n) * ISqrt(n)>>
  ELSE IF t % 2 = 1
       THEN LET p == SqrtQ(n, t - 1)
                c == 4 * p[1] + 1
            IN IF 4 * p[2] >= c THEN <<2 * p[1] + 1, 4 * p[2] - c>>
               ELSE <<2 * p[1], 4 * p[2]>>
  ELSE LET p == SqrtQ(n, t - 2)
           r == 4 * p[1]
           x == 16 * p[2]
           d == IF x >= 6 * r + 9 THEN 3
                ELSE IF x >= 4 * r + 4 THEN 2
                ELSE IF x >= 2 * r + 1 THEN 1
                ELSE 0
       IN <<r + d, x - (2 * r * d + d * d)>>

FSqrt(a) ==
  IF a.k = "nan" THEN NaN
  ELSE IF a.k = "inf" THEN (IF a.m > 0 THEN a ELSE NaN)
  ELSE IF a.m < 0 THEN NaN
  ELSE IF a.m = 0 THEN a
  ELSE LET odd == a.e % 2 = 1
           n0 == IF odd THEN 2 * a.m ELSE a.m
           j == (Precision + 1 - BitLen(n0)) \div 2
           n == n0 * Pow2(2 * j)
           e2 == (IF odd THEN a.e - 1 ELSE a.e) - 2 * j
           t == Precision + 2 - BitLen(ISqrt(n))
           p == SqrtQ(n, t)
       IN RoundNE(1, p[1], e2 \div 2 - t, p[2] # 0)

FLess(a, b) == LET d == FSub(a, b) IN d.k # "nan" /\ d.m < 0

Zero == FromInt(0)

(***************************************************************************)
(* Tensors.  A 1-d tensor is a sequence of float32 values, a 2-d tensor a  *)
(* sequence of rows, a 3-d tensor a sequence (over time steps) of 2-d      *)
(* tensors.  A dict (graph.ndata, graph.edata, a stats mapping) is a       *)
(* function from its keys; the empty dict is the empty function.           *)
(***************************************************************************)
EmptyDict == <<>>

DictSet(d, key, v) ==
  [kk \in DOMAIN d \cup {key} |-> IF kk = key THEN v ELSE d[kk]]

RECURSIVE SumSeq(_, _)
\* The float32 sum of s[1..n], accumulated from the first element on.
SumSeq(s, n) == IF n = 0 THEN Zero ELSE FAdd(SumSeq(s, n - 1), s[n])

VecSub(a, b) == [c \in 1..Len(a) |-> FSub(a[c], b[c])]

\* torch.mean(t, dim=0) of a 2-d tensor of the given width: the sum over the
\* rows divided by their number, channel by channel (0/0 = nan on no row).
MeanRows(t, width) ==
  [c \in 1..width |->
     FDiv(SumSeq([r \in 1..Len(t) |-> t[r][c]], Len(t)), FromInt(Len(t)))]

\* The rows of a 3-d tensor, time step after time step (dim=(0, 1)).
RECURSIVE Flatten(_, _)
Flatten(t, n) == IF n = 0 THEN <<>> ELSE Flatten(t, n - 1) \o t[n]

Square2(t) == [r \in 1..Len(t) |-> [c \in 1..Len(t[r]) |-> FMul(t[r][c], t[r][c])]]

(***************************************************************************)
(* Topology Builder: cell_to_adj and create_graph.                         *)
(***************************************************************************)
\* The vertex pairs of a cell without the pair (2, 3).
edge_indices_short == <<<<0, 1>>, <<0, 2>>, <<0, 3>>, <<1, 2>>, <<1, 3>>>>

edge_indices == <<<<0, 1>>, <<0, 2>>, <<0, 3>>, <<1, 2>>, <<1, 3>>, <<2, 3>>>>

\* cells: a sequence of 4-tuples of node ids; cells[i][a] of the code is
\* cells[i + 1][a + 1] here.
cell_to_adj(cellarr) ==
  LET num_cells == Len(cellarr)
      n == Len(edge_indices)
  IN [src |-> [j \in 1..(num_cells * n) |->
                 cellarr[((j - 1) \div n) + 1][edge_indices[((j - 1) % n) + 1][1] + 1]],
      dst |-> [j \in 1..(num_cells * n) |->
                 cellarr[((j - 1) \div n) + 1][edge_indices[((j - 1) % n) + 1][2] + 1]]]

SetMax(S) == IF S = {} THEN 0 - 1 ELSE CHOOSE m \in S : \A o \in S : o <= m

\* dgl.graph((src, dst)): one edge per position, num_nodes = largest id + 1.
dgl_graph(src, dst) ==
  [num_nodes |-> SetMax({src[j] : j \in 1..Len(src)} \cup {dst[j] : j \in 1..Len(dst)}) + 1,
   edges |-> [j \in 1..Len(src) |-> <<src[j], dst[j]>>],
   edata |-> EmptyDict,
   ndata |-> EmptyDict]

\* dgl.add_reverse_edges: the edges, then the same edges reversed.
add_reverse_edges(g) ==
  [g EXCEPT !.edges = g.edges \o [j \in 1..Len(g.edges) |-> <<g.edges[j][2], g.edges[j][1]>>]]

EdgeLess(p, q) == p[1] < q[1] \/ (p[1] = q[1] /\ p[2] < q[2])

RECURSIVE SortEdges(_)
SortEdges(S) ==
  IF S = {} THEN <<>>
  ELSE LET lo == CHOOSE p \in S : \A q \in S \ {p} : EdgeLess(p, q)
       IN <<lo>> \o SortEdges(S \ {lo})

\* A to_simple that keeps parallel edges.
to_simple_keeping(g) == g

\* dgl.to_simple: parallel edges are merged; the edges come out ordered by
\* (source, destination).
to_simple(g) ==
  [g EXCEPT !.edges = SortEdges({g.edges[j] : j \in 1..Len(g.edges)})]

to_bidirected(g) == to_simple(add_reverse_edges(g))

create_graph(src, dst) == to_bidirected(dgl_graph(src, dst))

(***************************************************************************)
(* Feature Deriver: edge features.                                         *)
(***************************************************************************)
\* torch.linalg.norm(disp, dim=-1): the square root of the sum of squares.
VecNorm(v) == FSqrt(SumSeq([c \in 1..Len(v) |-> FMul(v[c], v[c])], Len(v)))

\* pos: one position per node; node id u is pos[u + 1].
add_edge_features(graph, pos) ==
  LET disp == [j \in 1..Len(graph.edges) |->
                 VecSub(pos[graph.edges[j][1] + 1], pos[graph.edges[j][2] + 1])]
  IN [graph EXCEPT !.edata =
        DictSet(graph.edata, "x",
                [j \in 1..Len(disp) |-> Append(disp[j], VecNorm(disp[j]))])]

(***************************************************************************)
(* The outcome of a call that may raise.                                   *)
(***************************************************************************)
Ok(v) == [ok |-> TRUE, val |-> v, err |-> "none"]

Raise(e) == [ok |-> FALSE, val |-> <<>>, err |-> e]

(***************************************************************************)
(* Normalizer.                                                             *)
(***************************************************************************)
\* A normalize_node that compares the input with the mean alone and takes
\* the std as far as it goes.
normalize_node_mean_only(invar, mu, std) ==
  LET last == Len(invar[1][1])
  IN IF last # Len(mu)
     THEN Raise("AssertionError")
     ELSE Ok([t \in 1..Len(invar) |->
               [n \in 1..Len(invar[t]) |->
                 [c \in 1..last |->
                    FDiv(FSub(invar[t][n][c], mu[c]), std[((c - 1) % Len(std)) + 1])]]])

\* invar: a 3-d tensor (steps, nodes, channels); mu, std: 1-d tensors.
normalize_node(invar, mu, std) ==
  LET last == Len(invar[1][1])
  IN IF last # Len(mu) \/ last # Len(std)
     THEN Raise("AssertionError")
     ELSE Ok([t \in 1..Len(invar) |->
               [n \in 1..Len(invar[t]) |->
                 [c \in 1..last |-> FDiv(FSub(invar[t][n][c], mu[c]), std[c])]]])

\* graph.edata["x"]: a 2-d tensor (edges, channels).
normalize_edge(graph, mu, std) ==
  LET xs == graph.edata["x"]
      last == Len(xs[1])
  IN IF last # Len(mu) \/ last # Len(std)
     THEN Raise("AssertionError")
     ELSE Ok([j \in 1..Len(xs) |->
               [c \in 1..last |-> FDiv(FSub(xs[j][c], mu[c]), std[c])]])

denormalize(invar, mu, std) ==
  [t \in 1..Len(invar) |->
    [n \in 1..Len(invar[t]) |->
      [c \in 1..Len(invar[t][n]) |-> FAdd(FMul(invar[t][n][c], std[c]), mu[c])]]]

(***************************************************************************)
(* Node-Type Encoder.  node_type is a uint8 tensor (line 113), so the fill *)
(* value -1 and the -1 it is compared with are both taken modulo 2^8.      *)
(***************************************************************************)
UInt8Mod == 256

\* torch.tensor(data_np["node_type"][0], dtype=torch.uint8): each int32 code
\* of the (nodes, 1) array is narrowed to its low 8 bits.
to_uint8(raw) == [n \in 1..Len(raw) |-> [c \in 1..Len(raw[n]) |-> raw[n][c] % UInt8Mod]]

\* torch.squeeze(node_type, dim=-1) of a (nodes, 1) tensor.
squeeze(node_type) == [n \in 1..Len(node_type) |-> node_type[n][1]]

\* The items of mapping = {0: 0, 1: 1, 3: 2}, in the order the loop takes them.
mapping == <<<<0, 0>>, <<1, 1>>, <<3, 2>>>>

num_classes == 3

full_like(node_type, fill_value) == [n \in 1..Len(node_type) |-> fill_value % UInt8Mod]

\* A turn that selects on the tensor it assigns: mapped[mapped == k] = v.
MapItemOnMapped(node_type, mapped, item) ==
  [n \in 1..Len(mapped) |-> IF mapped[n] = item[1] THEN item[2] ELSE mapped[n]]

\* One turn of the loop: mapped[node_type == k] = v.
MapItem(node_type, mapped, item) ==
  [n \in 1..Len(mapped) |-> IF node_type[n] = item[1] THEN item[2] ELSE mapped[n]]

\* mapped after the first j items of mapping.
RECURSIVE MappedAfter(_, _)
MappedAfter(node_type, j) ==
  IF j = 0 THEN full_like(node_type, 0 - 1)
  ELSE MapItem(node_type, MappedAfter(node_type, j - 1), mapping[j])

\* F.one_hot(mapped.long(), num_classes=3).
one_hot(mapped) == [n \in 1..Len(mapped) |-> [c \in 1..num_classes |-> IF mapped[n] = c - 1 THEN 1 ELSE 0]]

\* The check (mapped == -1).any() and the encoding of a mapped tensor.
EncodeMapped(mapped) ==
  IF \E n \in 1..Len(mapped) : mapped[n] = (0 - 1) % UInt8Mod
  THEN Raise("ValueError")
  ELSE Ok(one_hot(mapped))

_one_hot_encode(node_type) == EncodeMapped(MappedAfter(squeeze(node_type), Len(mapping)))

_get_rollout_mask(node_type) ==
  [n \in 1..Len(node_type) |-> [c \in 1..Len(node_type[n]) |->
     node_type[n][c] = 0 \/ node_type[n][c] = 0 + 1]]

\* torch.eq(node_type, torch.zeros_like(node_type)) (line 115).
NoiseMask(node_type) ==
  [n \in 1..Len(node_type) |-> [c \in 1..Len(node_type[n]) |-> node_type[n][c] = 0]]

(***************************************************************************)
(* Feature Deriver: node features and targets.  The arrays are float32     *)
(* already, so the cast of torch.tensor(..., dtype=torch.float) keeps      *)
(* every value.                                                            *)
(***************************************************************************)
\* arr[:num_steps]
Truncate(arr, n) == SubSeq(arr, 1, IF n < Len(arr) THEN n ELSE Len(arr))

_drop_last(invar) == SubSeq(invar, 1, Len(invar) - 1)

_push_forward(invar) == SubSeq(invar, 2, Len(invar))

\* The difference taken backwards: invar[0:-1] - invar[1:].
_push_backward_diff(invar) ==
  [t \in 1..(Len(invar) - 1) |->
    [n \in 1..Len(invar[t]) |-> VecSub(invar[t][n], invar[t + 1][n])]]

_push_forward_diff(invar) ==
  [t \in 1..(Len(invar) - 1) |->
    [n \in 1..Len(invar[t]) |-> VecSub(invar[t + 1][n], invar[t][n])]]

\* The noise is disabled in the code: features and targets pass through.
_add_noise(features, targets, noise_std, mask) == <<features, targets>>

(***************************************************************************)
(* Streaming Statistics Engine.                                            *)
(***************************************************************************)
VecAdd(a, b) == [c \in 1..Len(b) |-> FAdd(a[c], b[c])]

VecDiv(a, d) == [c \in 1..Len(a) |-> FDiv(a[c], d)]

VecStd(meansqr, mean) ==
  [c \in 1..Len(mean) |-> FSqrt(FSub(meansqr[c], FMul(mean[c], mean[c])))]

\* The accumulator after the first n turns of a statistics loop: it starts
\* as the integer 0, and each turn adds torch.mean(tensor_i) / num_samples.
\* tensors[i] is the 2-d tensor of sample i (a 3-d tensor flattened over its
\* first two dimensions).
RECURSIVE Accumulate(_, _, _, _)
Accumulate(tensors, n, num, width) ==
  IF n = 0 THEN [c \in 1..width |-> Zero]
  ELSE VecAdd(Accumulate(tensors, n - 1, num, width),
              VecDiv(MeanRows(tensors[n], width), FromInt(num)))

_get_edge_stats(gs, num) ==
  LET xs == [i \in 1..num |-> gs[i].edata["x"]]
      width == Len(xs[1][1])
      edge_mean == Accumulate(xs, num, num, width)
      edge_meansqr == Accumulate([i \in 1..num |-> Square2(xs[i])], num, num, width)
  IN [edge_mean |-> edge_mean, edge_std |-> VecStd(edge_meansqr, edge_mean)]

GroupStats(tensors, num) ==
  LET flat == [i \in 1..num |-> Flatten(tensors[i], Len(tensors[i]))]
      width == Len(tensors[1][1][1])
      mean == Accumulate(flat, num, num, width)
      meansqr == Accumulate([i \in 1..num |-> Square2(flat[i])], num, num, width)
  IN <<mean, VecStd(meansqr, mean)>>

_get_node_stats(feats, targs, num) ==
  LET wp == GroupStats([i \in 1..num |-> feats[i]["world_pos"]], num)
      st == GroupStats([i \in 1..num |-> targs[i]["stress"]], num)
      df == GroupStats([i \in 1..num |-> targs[i]["world_pos"]], num)
  IN [world_pos_mean |-> wp[1], world_pos_std |-> wp[2],
      stress_mean |-> st[1], stress_std |-> st[2],
      world_pos_diff_mean |-> df[1], world_pos_diff_std |-> df[2]]

(***************************************************************************)
(* Statistics persistence (physicsnemo.datapipes.gnn.utils): the files of  *)
(* the working directory as a dict from file name to the stats mapping.    *)
(***************************************************************************)
load_json(files, name) ==
  IF name \in DOMAIN files THEN Ok(files[name]) ELSE Raise("FileNotFoundError")

save_json(files, var, name) == DictSet(files, name, var)

(***************************************************************************)
(* Trajectory Source: what dataset_iterator.get_next() yields.  A data     *)
(* directory holds one .tfrecord per split; its k-th trajectory is a       *)
(* mapping from field name to an array over TrajectoryLength time steps    *)
(* ("static" fields are tiled over the steps by _parse_data).  Positions   *)
(* have Dim coordinates, stress has one.                                   *)
(***************************************************************************)
Dim == 2

TrajectoryLength == MaxSteps + 1

\* A position of Dim coordinates in the plane of the first two.
F2(a, b) == [c \in 1..Dim |-> IF c = 1 THEN FromInt(a) ELSE IF c = 2 THEN FromInt(b) ELSE Zero]

\* The spec's degenerate tetrahedron on 3 nodes, and two tetrahedra sharing
\* a face on 5 nodes.
GeoCells(geo) ==
  IF geo = "tri" THEN <<<<0, 1, 2, 2>>>>
  ELSE <<<<0, 1, 2, 3>>, <<1, 2, 3, 4>>>>

GeoPos(geo) ==
  IF geo = "tri" THEN <<F2(0, 0), F2(3, 0), F2(0, 4)>>
  ELSE <<F2(0, 0), F2(4, 0), F2(0, 3), F2(4, 3), F2(8, 6)>>

\* The geometry and the raw (int32) node-type codes of the k-th trajectory
\* of a data directory.  "plate" holds valid codes only; "airfoil" holds
\* the code 2 in its second trajectory, "wide" a code of 256 or more in
\* every trajectory.
TrajGeo(dir, k) == IF k % 2 = 1 THEN "tri" ELSE "tets"

TrajCodes(dir, k) ==
  LET n == Len(GeoPos(TrajGeo(dir, k)))
  IN [j \in 1..n |->
       IF dir = "airfoil" /\ k = 2 /\ j = 2 THEN <<2>>
       ELSE IF dir = "wide" /\ j = 1 THEN <<256>>
       ELSE IF dir = "wide" /\ j = 2 THEN <<259>>
       ELSE <<<<0, 1, 3>>[(j % 3) + 1]>>]

DataDirs == {"plate", "airfoil", "wide"}

get_next(dir, k) ==
  LET geo == TrajGeo(dir, k)
      pos == GeoPos(geo)
      n == Len(pos)
  IN [cells |-> [t \in 1..TrajectoryLength |-> GeoCells(geo)],
      mesh_pos |-> [t \in 1..TrajectoryLength |-> pos],
      node_type |-> [t \in 1..TrajectoryLength |-> TrajCodes(dir, k)],
      world_pos |-> [t \in 1..TrajectoryLength |->
                      [j \in 1..n |-> [c \in 1..Dim |->
                         IF c = 1 THEN FAdd(pos[j][c], FromInt((t - 1) * (j + k)))
                         ELSE FSub(pos[j][c], FromInt((t - 1) * (t - 1)))]]],
      stress |-> [t \in 1..TrajectoryLength |->
                   [j \in 1..n |-> <<FromInt(t * t + j * k)>>]]]

\* data_np = {key: arr[:num_steps].numpy() for key, arr in data_np.items()}
TruncateAll(data, steps) == [key \in DOMAIN data |-> Truncate(data[key], steps)]

\* Statistics persisted by an earlier run: of the right widths ("trained"),
\* of a data set with 3 coordinates for the edges ("edge3d") or for the
\* nodes ("node3d"), or no file at all ("none").
Const(n, v) == [c \in 1..n |-> FromInt(v)]

EdgeStatsFile(w) == [edge_mean |-> Const(w, 1), edge_std |-> Const(w, 2)]

NodeStatsFile(w) ==
  [world_pos_mean |-> Const(w, 1), world_pos_std |-> Const(w, 4),
   stress_mean |-> Const(1, 3), stress_std |-> Const(1, 2),
   world_pos_diff_mean |-> Const(w, 0), world_pos_diff_std |-> Const(w, 2)]

StoredFiles(kind) ==
  IF kind = "none" THEN EmptyDict
  ELSE [name \in {"edge_stats.json", "node_stats.json"} |->
         IF name = "edge_stats.json"
         THEN EdgeStatsFile(IF kind = "edge3d" THEN Dim + 2 ELSE Dim + 1)
         ELSE NodeStatsFile(IF kind = "node3d" THEN Dim + 1 ELSE Dim)]

Splits == {"train", "eval", "test"}

(***************************************************************************)
(* The state: the constructor's arguments, the files it reads and writes,  *)
(* the fields of the dataset, the locals of __init__ that live across its  *)
(* loops, and the position of the constructor (pc).                        *)
(***************************************************************************)
VARIABLES
  data_dir, split, num_samples, num_steps, length,
  files,              \* the persisted statistics files
  pc, i, err,         \* position in __init__, loop index, the error raised
  dataset_iterator,   \* trajectories the current iterator has yielded
  graphs, cells, node_type, noise_mask, rollout_mask, mesh_pos,
  edge_stats, node_stats, node_features, node_targets,
  hist,               \* history: what the constructor has done so far
  ret,                \* what the last __getitem__ returned
  fn, arg, res        \* a pure function run on its own: stage, input, result

cfgvars == <<data_dir, split, num_samples, num_steps, length>>

graphvars == <<graphs, cells, node_type, noise_mask, rollout_mask, mesh_pos>>

featvars == <<node_features, node_targets>>

fnvars == <<fn, arg, res>>

vars == <<data_dir, split, num_samples, num_steps, length, files, pc, i, err,
          dataset_iterator, graphs, cells, node_type, noise_mask, rollout_mask,
          mesh_pos, edge_stats, node_stats, node_features, node_targets, hist,
          ret, fn, arg, res>>

NoHist ==
  [edge_computed |-> 0, edge_saved |-> 0, edge_loaded |-> 0,
   node_computed |-> 0, node_saved |-> 0, node_loaded |-> 0,
   iterators |-> 0,
   edge_norm |-> <<>>, feat_norm |-> <<>>, diff_norm |-> <<>>, stress_norm |-> <<>>]

NoRet == [called |-> FALSE, idx |-> 0, gidx |-> 0, tidx |-> 0, graph |-> 0,
          cells |-> <<>>, rollout_mask |-> <<>>]

FnIdle == fn = "none" /\ arg = <<>> /\ res = <<>>

\* The state after lines 93-105, for the given arguments and files.
InitWith(dir, sp, ns, steps, stored) ==
  /\ data_dir = dir
  /\ split = sp
  /\ num_samples = ns
  /\ num_steps = steps
  /\ length = ns * (steps - 1)
  /\ files = stored
  /\ pc = "graph_loop"
  /\ i = 0
  /\ err = "none"
  /\ dataset_iterator = 0
  /\ graphs = <<>> /\ cells = <<>> /\ node_type = <<>>
  /\ noise_mask = <<>> /\ rollout_mask = <<>> /\ mesh_pos = <<>>
  /\ edge_stats = EmptyDict /\ node_stats = EmptyDict
  /\ node_features = <<>> /\ node_targets = <<>>
  /\ hist = [NoHist EXCEPT !.iterators = 1]
  /\ ret = NoRet

StoredKinds(sp) == IF sp = "train" THEN {"none", "trained"}
                   ELSE {"none", "trained", "edge3d", "node3d"}

Init ==
  /\ \E dir \in DataDirs, sp \in Splits, ns \in 1..MaxSamples, steps \in 2..MaxSteps :
       \E kind \in StoredKinds(sp) : InitWith(dir, sp, ns, steps, StoredFiles(kind))
  /\ FnIdle

Fail(e) == pc' = "failed" /\ err' = e

\* Lines 106-120: one turn of the graph loop.
BuildGraph ==
  /\ pc = "graph_loop"
  /\ \E data_np \in {TruncateAll(get_next(data_dir, dataset_iterator + 1), num_steps)} :
     \E adj \in {cell_to_adj(data_np["cells"][1])} :
     \E graph \in {add_edge_features(create_graph(adj.src, adj.dst),
                                      data_np["mesh_pos"][1])} :
     \E nt \in {to_uint8(data_np["node_type"][1])} :
     \E enc \in {_one_hot_encode(nt)} :
        /\ dataset_iterator' = dataset_iterator + 1
        /\ graphs' = Append(graphs, graph)
        /\ hist' = [hist EXCEPT !.edge_norm = Append(@, 0)]
        /\ IF ~enc.ok
           THEN /\ Fail(enc.err)
                /\ UNCHANGED <<i, node_type, noise_mask, mesh_pos, cells, rollout_mask>>
           ELSE /\ node_type' = Append(node_type, enc.val)
                /\ noise_mask' = Append(noise_mask, NoiseMask(nt))
                /\ IF split # "train"
                   THEN /\ mesh_pos' = Append(mesh_pos, data_np["mesh_pos"][1])
                        /\ cells' = Append(cells, data_np["cells"][1])
                        /\ rollout_mask' = Append(rollout_mask, _get_rollout_mask(nt))
                   ELSE UNCHANGED <<mesh_pos, cells, rollout_mask>>
                /\ i' = IF i + 1 < num_samples THEN i + 1 ELSE 0
                /\ pc' = IF i + 1 < num_samples THEN "graph_loop" ELSE "edge_stats"
                /\ err' = err
  /\ UNCHANGED <<cfgvars, files, edge_stats, node_stats, featvars, ret, fnvars>>

\* Lines 123-124 and _get_edge_stats (209-229).
ComputeEdgeStats ==
  /\ pc = "edge_stats"
  /\ split = "train"
  /\ \E stats \in {_get_edge_stats(graphs, num_samples)} :
        /\ files' = save_json(files, stats, "edge_stats.json")
        /\ edge_stats' = stats
  /\ hist' = [hist EXCEPT !.edge_computed = @ + 1, !.edge_saved = @ + 1]
  /\ pc' = "edge_norm"
  /\ UNCHANGED <<cfgvars, i, err, dataset_iterator, graphvars, node_stats, featvars,
                 ret, fnvars>>

\* Lines 125-126.
LoadEdgeStats ==
  /\ pc = "edge_stats"
  /\ split # "train"
  /\ \E loaded \in {load_json(files, "edge_stats.json")} :
        IF loaded.ok
        THEN /\ edge_stats' = loaded.val
             /\ hist' = [hist EXCEPT !.edge_loaded = @ + 1]
             /\ pc' = "edge_norm"
             /\ err' = err
        ELSE /\ Fail(loaded.err)
             /\ UNCHANGED <<edge_stats, hist>>
  /\ UNCHANGED <<cfgvars, files, i, dataset_iterator, graphvars, node_stats, featvars,
                 ret, fnvars>>

\* A turn of the edge normalization loop that takes the first graph
\* whatever the turn.
NormalizeEdgeFirst ==
  /\ pc = "edge_norm"
  /\ \E normed \in {normalize_edge(graphs[1], edge_stats["edge_mean"],
                                     edge_stats["edge_std"])} :
        IF normed.ok
        THEN /\ graphs' = [graphs EXCEPT ![1].edata = DictSet(@, "x", normed.val)]
             /\ hist' = [hist EXCEPT !.edge_norm[1] = @ + 1]
             /\ i' = IF i + 1 < num_samples THEN i + 1 ELSE 0
             /\ pc' = IF i + 1 < num_samples THEN "edge_norm" ELSE "feat_loop"
             /\ err' = err
        ELSE /\ Fail(normed.err)
             /\ UNCHANGED <<graphs, hist, i>>
  /\ UNCHANGED <<cfgvars, files, dataset_iterator, cells, node_type, noise_mask,
                 rollout_mask, mesh_pos, edge_stats, node_stats, featvars, ret, fnvars>>

\* Lines 129-134: one turn of the edge normalization loop.
NormalizeEdge ==
  /\ pc = "edge_norm"
  /\ \E normed \in {normalize_edge(graphs[i + 1], edge_stats["edge_mean"],
                                     edge_stats["edge_std"])} :
        IF normed.ok
        THEN /\ graphs' = [graphs EXCEPT ![i + 1].edata = DictSet(@, "x", normed.val)]
             /\ hist' = [hist EXCEPT !.edge_norm[i + 1] = @ + 1]
             /\ i' = IF i + 1 < num_samples THEN i + 1 ELSE 0
             /\ pc' = IF i + 1 < num_samples THEN "edge_norm" ELSE "feat_loop"
             /\ err' = err
        ELSE /\ Fail(normed.err)
             /\ UNCHANGED <<graphs, hist, i>>
  /\ UNCHANGED <<cfgvars, files, dataset_iterator, cells, node_type, noise_mask,
                 rollout_mask, mesh_pos, edge_stats, node_stats, featvars, ret, fnvars>>

\* A feature loop that goes on with the iterator of the graph loop.
BuildFeaturesSameIterator ==
  /\ pc = "feat_loop"
  /\ \E data_np \in {TruncateAll(get_next(data_dir, dataset_iterator + 1), num_steps)} :
     \E noised \in {IF split = "train"
                     THEN _add_noise(_drop_last(data_np["world_pos"]),
                                     _push_forward_diff(data_np["world_pos"]),
                                     0, noise_mask[i + 1])
                     ELSE <<_drop_last(data_np["world_pos"]),
                            _push_forward_diff(data_np["world_pos"])>>} :
        /\ dataset_iterator' = dataset_iterator + 1
        /\ node_features' = Append(node_features, [world_pos |-> noised[1]])
        /\ node_targets' = Append(node_targets,
                                  [world_pos |-> noised[2],
                                   stress |-> _push_forward(data_np["stress"])])
  /\ hist' = [hist EXCEPT !.feat_norm = Append(@, 0),
                          !.diff_norm = Append(@, 0),
                          !.stress_norm = Append(@, 0)]
  /\ i' = IF i + 1 < num_samples THEN i + 1 ELSE 0
  /\ pc' = IF i + 1 < num_samples THEN "feat_loop" ELSE "node_stats"
  /\ UNCHANGED <<cfgvars, files, err, graphvars, edge_stats, node_stats, ret, fnvars>>

\* Lines 137-156: one turn of the feature loop; the first turn follows the
\* creation of a second iterator over the split (line 137).
BuildFeatures ==
  /\ pc = "feat_loop"
  /\ \E pos \in {IF i = 0 THEN 0 ELSE dataset_iterator} :
     \E data_np \in {TruncateAll(get_next(data_dir, pos + 1), num_steps)} :
     \E noised \in {IF split = "train"
                     THEN _add_noise(_drop_last(data_np["world_pos"]),
                                     _push_forward_diff(data_np["world_pos"]),
                                     0, noise_mask[i + 1])
                     ELSE <<_drop_last(data_np["world_pos"]),
                            _push_forward_diff(data_np["world_pos"])>>} :
        /\ dataset_iterator' = pos + 1
        /\ node_features' = Append(node_features, [world_pos |-> noised[1]])
        /\ node_targets' = Append(node_targets,
                                  [world_pos |-> noised[2],
                                   stress |-> _push_forward(data_np["stress"])])
  /\ hist' = [hist EXCEPT !.iterators = IF i = 0 THEN @ + 1 ELSE @,
                          !.feat_norm = Append(@, 0),
                          !.diff_norm = Append(@, 0),
                          !.stress_norm = Append(@, 0)]
  /\ i' = IF i + 1 < num_samples THEN i + 1 ELSE 0
  /\ pc' = IF i + 1 < num_samples THEN "feat_loop" ELSE "node_stats"
  /\ UNCHANGED <<cfgvars, files, err, graphvars, edge_stats, node_stats, ret, fnvars>>

\* The node statistics computed and not saved.
ComputeNodeStatsUnsaved ==
  /\ pc = "node_stats"
  /\ split = "train"
  /\ node_stats' = _get_node_stats(node_features, node_targets, num_samples)
  /\ hist' = [hist EXCEPT !.node_computed = @ + 1]
  /\ pc' = "node_norm"
  /\ UNCHANGED <<cfgvars, files, i, err, dataset_iterator, graphvars, edge_stats,
                 featvars, ret, fnvars>>

\* Lines 159-160 and _get_node_stats (231-286).
ComputeNodeStats ==
  /\ pc = "node_stats"
  /\ split = "train"
  /\ \E stats \in {_get_node_stats(node_features, node_targets, num_samples)} :
        /\ files' = save_json(files, stats, "node_stats.json")
        /\ node_stats' = stats
  /\ hist' = [hist EXCEPT !.node_computed = @ + 1, !.node_saved = @ + 1]
  /\ pc' = "node_norm"
  /\ UNCHANGED <<cfgvars, i, err, dataset_iterator, graphvars, edge_stats, featvars,
                 ret, fnvars>>

\* Lines 161-162.
LoadNodeStats ==
  /\ pc = "node_stats"
  /\ split # "train"
  /\ \E loaded \in {load_json(files, "node_stats.json")} :
        IF loaded.ok
        THEN /\ node_stats' = loaded.val
             /\ hist' = [hist EXCEPT !.node_loaded = @ + 1]
             /\ pc' = "node_norm"
             /\ err' = err
        ELSE /\ Fail(loaded.err)
             /\ UNCHANGED <<node_stats, hist>>
  /\ UNCHANGED <<cfgvars, files, i, dataset_iterator, graphvars, edge_stats, featvars,
                 ret, fnvars>>

\* Lines 165-180: one turn of the node normalization loop, its three
\* assignments in order; the first that raises ends the constructor with
\* the earlier assignments of the turn made.
NormalizeNode ==
  /\ pc = "node_norm"
  /\ \E wp \in {normalize_node(node_features[i + 1]["world_pos"],
                                 node_stats["world_pos_mean"],
                                 node_stats["world_pos_std"])} :
     \E df \in {normalize_node(node_targets[i + 1]["world_pos"],
                                 node_stats["world_pos_diff_mean"],
                                 node_stats["world_pos_diff_std"])} :
     \E st \in {normalize_node(node_targets[i + 1]["stress"],
                                 node_stats["stress_mean"], node_stats["stress_std"])} :
        /\ node_features' = IF wp.ok
                            THEN [node_features EXCEPT ![i + 1]["world_pos"] = wp.val]
                            ELSE node_features
        /\ node_targets' =
             IF wp.ok /\ df.ok /\ st.ok
             THEN [node_targets EXCEPT ![i + 1]["world_pos"] = df.val,
                                       ![i + 1]["stress"] = st.val]
             ELSE IF wp.ok /\ df.ok
             THEN [node_targets EXCEPT ![i + 1]["world_pos"] = df.val]
             ELSE node_targets
        /\ hist' = [hist EXCEPT
                      !.feat_norm[i + 1] = IF wp.ok THEN @ + 1 ELSE @,
                      !.diff_norm[i + 1] = IF wp.ok /\ df.ok THEN @ + 1 ELSE @,
                      !.stress_norm[i + 1] = IF wp.ok /\ df.ok /\ st.ok THEN @ + 1 ELSE @]
        /\ IF wp.ok /\ df.ok /\ st.ok
           THEN /\ i' = IF i + 1 < num_samples THEN i + 1 ELSE 0
                /\ pc' = IF i + 1 < num_samples THEN "node_norm" ELSE "done"
                /\ err' = err
           ELSE /\ Fail("AssertionError")
                /\ i' = i
  /\ UNCHANGED <<cfgvars, files, dataset_iterator, graphvars, edge_stats, node_stats,
                 ret, fnvars>>

\* torch.cat((a, b), dim=-1) of two 2-d tensors with the same rows.
CatRows(a, b) == [n \in 1..Len(a) |-> a[n] \o b[n]]

\* The one-hot rows (int64) as torch.cat promotes them to float32.
ToFloat(t) == [n \in 1..Len(t) |-> [c \in 1..Len(t[n]) |-> FromInt(t[n][c])]]

\* The trajectory of a flat index, were it divided by num_steps.
GraphIndexBySteps(idx) == idx \div num_steps

\* Lines 183-184: the trajectory and the time step of a flat index.
GraphIndex(idx) == idx \div (num_steps - 1)

StepIndex(idx) == idx % (num_steps - 1)

\* A __getitem__ that stores the node input and target in graph.edata.
GetItemOnEdata(idx) ==
  /\ pc = "done"
  /\ \E gidx \in {GraphIndex(idx)} :
     \E tidx \in {StepIndex(idx)} :
     \E feats \in {CatRows(node_features[gidx + 1]["world_pos"][tidx + 1],
                            ToFloat(node_type[gidx + 1]))} :
     \E targs \in {CatRows(node_targets[gidx + 1]["world_pos"][tidx + 1],
                            node_targets[gidx + 1]["stress"][tidx + 1])} :
        /\ graphs' = [graphs EXCEPT ![gidx + 1].edata =
                        DictSet(DictSet(@, "x", feats), "y", targs)]
        /\ ret' = [called |-> TRUE, idx |-> idx, gidx |-> gidx, tidx |-> tidx,
                   graph |-> gidx + 1,
                   cells |-> IF split = "train" THEN <<>> ELSE cells[gidx + 1],
                   rollout_mask |-> IF split = "train" THEN <<>>
                                    ELSE rollout_mask[gidx + 1]]
  /\ UNCHANGED <<cfgvars, files, pc, i, err, dataset_iterator, cells, node_type,
                 noise_mask, rollout_mask, mesh_pos, edge_stats, node_stats, featvars,
                 hist, fnvars>>

\* __getitem__ (lines 182-204).  The graph it returns is the dataset's own
\* graph object: ret.graph is its place in self.graphs.
GetItem(idx) ==
  /\ pc = "done"
  /\ \E gidx \in {GraphIndex(idx)} :
     \E tidx \in {StepIndex(idx)} :
     \E feats \in {CatRows(node_features[gidx + 1]["world_pos"][tidx + 1],
                            ToFloat(node_type[gidx + 1]))} :
     \E targs \in {CatRows(node_targets[gidx + 1]["world_pos"][tidx + 1],
                            node_targets[gidx + 1]["stress"][tidx + 1])} :
     \E staged \in {DictSet(DictSet(graphs[gidx + 1].ndata, "x", feats), "y", targs)} :
        /\ graphs' = [graphs EXCEPT ![gidx + 1].ndata =
                        IF split = "train" THEN staged
                        ELSE DictSet(staged, "mesh_pos", mesh_pos[gidx + 1])]
        /\ ret' = [called |-> TRUE, idx |-> idx, gidx |-> gidx, tidx |-> tidx,
                   graph |-> gidx + 1,
                   cells |-> IF split = "train" THEN <<>> ELSE cells[gidx + 1],
                   rollout_mask |-> IF split = "train" THEN <<>>
                                    ELSE rollout_mask[gidx + 1]]
  /\ UNCHANGED <<cfgvars, files, pc, i, err, dataset_iterator, cells, node_type,
                 noise_mask, rollout_mask, mesh_pos, edge_stats, node_stats, featvars,
                 hist, fnvars>>

Lookup == \E idx \in 0..(length - 1) : GetItem(idx)

\* __len__ (lines 206-207).
DatasetLen == length

Next ==
  \/ BuildGraph
  \/ ComputeEdgeStats
  \/ LoadEdgeStats
  \/ NormalizeEdge
  \/ BuildFeatures
  \/ ComputeNodeStats
  \/ LoadNodeStats
  \/ NormalizeNode
  \/ Lookup

Spec == Init /\ [][Next]_vars

mainvars == <<data_dir, split, num_samples, num_steps, length, files, pc, i, err,
              dataset_iterator, graphs, cells, node_type, noise_mask, rollout_mask,
              mesh_pos, edge_stats, node_stats, node_features, node_targets, hist,
              ret>>

\* No dataset takes part in the run of a function on its own.
NoDataset == InitWith("plate", "train", 1, 2, EmptyDict)

(***************************************************************************)
(* Sample Indexer (__len__, __getitem__).                                  *)
(***************************************************************************)
\* C1: the length is N*(S-1); a lookup of idx resolves to trajectory
\* idx div (S-1) and step idx mod (S-1), inside {0..N-1} x {0..S-2}, and
\* idx is recovered from the pair, so that the mapping is a bijection and
\* every trajectory holds S-1 samples.
C1_IndexMapping ==
  /\ DatasetLen = num_samples * (num_steps - 1)
  /\ ret.called =>
       /\ ret.gidx = ret.idx \div (num_steps - 1)
       /\ ret.tidx = ret.idx % (num_steps - 1)
       /\ ret.gidx \in 0..(num_samples - 1)
       /\ ret.tidx \in 0..(num_steps - 2)
       /\ ret.idx = ret.gidx * (num_steps - 1) + ret.tidx
       /\ ret.graph = ret.gidx + 1
  /\ pc = "done" =>
       \A g \in 0..(num_samples - 1) :
         Cardinality({idx \in 0..(DatasetLen - 1) : GraphIndex(idx) = g}) = num_steps - 1

\* The last sample of the last trajectory has been looked up.
C1_Witness ==
  /\ ret.called
  /\ num_samples = MaxSamples /\ num_steps = MaxSteps
  /\ ret.idx = DatasetLen - 1
  /\ ret.gidx = MaxSamples - 1 /\ ret.tidx = MaxSteps - 2

(***************************************************************************)
(* Topology Builder on its own: cell_to_adj, then create_graph.            *)
(***************************************************************************)
Nodes == 0..MaxNodeId

AllCells == {<<a, b, c, d>> : a \in Nodes, b \in Nodes, c \in Nodes, d \in Nodes}

SampleCells == {<<0, 1, 2, 3>>, <<1, 2, 3, 0>>, <<0, 1, 2, 2>>, <<3, 3, 3, 3>>,
                <<2, 0, 3, 1>>}

CellArrays == {<<c>> : c \in AllCells}
                \cup UNION {[1..n -> SampleCells] : n \in 2..MaxCells}

InitTopology ==
  /\ NoDataset
  /\ fn = "cells" /\ arg \in CellArrays /\ res = <<>>

CellToAdj ==
  /\ fn = "cells"
  /\ fn' = "adj"
  /\ res' = cell_to_adj(arg)
  /\ UNCHANGED <<mainvars, arg>>

\* create_graph, with the graph as dgl holds it between add_reverse_edges
\* and to_simple.
CreateGraph ==
  /\ fn = "adj"
  /\ fn' = "graph"
  /\ res' = [reversed |-> add_reverse_edges(dgl_graph(res.src, res.dst)),
             graph |-> create_graph(res.src, res.dst)]
  /\ UNCHANGED <<mainvars, arg>>

NextTopology ==
  \/ CellToAdj
  \/ CreateGraph

SpecTopology == InitTopology /\ [][NextTopology]_vars

\* u and v are one of the 6 vertex pairs of some cell, in either order.
CellPair(cellarr, u, v) ==
  \E k \in 1..Len(cellarr) : \E a \in 1..4, b \in 1..4 :
    /\ a < b
    /\ \/ cellarr[k][a] = u /\ cellarr[k][b] = v
       \/ cellarr[k][a] = v /\ cellarr[k][b] = u

EdgeCount(edges, p) == Cardinality({j \in 1..Len(edges) : edges[j] = p})

\* C2: the edge list of the graph holds the directed edge (u, v) exactly
\* once if u and v are a vertex pair of some cell and not at all otherwise,
\* and the mirror of every edge it holds.
C2_SymmetricDeduplicated ==
  fn = "graph" =>
    /\ \A u \in Nodes, v \in Nodes :
         EdgeCount(res.graph.edges, <<u, v>>) = IF CellPair(arg, u, v) THEN 1 ELSE 0
    /\ \A j \in 1..Len(res.graph.edges) :
         \E k \in 1..Len(res.graph.edges) :
           res.graph.edges[k] = <<res.graph.edges[j][2], res.graph.edges[j][1]>>

\* Two cells that share a pair, one of them degenerate: the merged pair
\* and the self-loop are each held once.
C2_Witness ==
  /\ fn = "graph"
  /\ arg = <<<<0, 1, 2, 3>>, <<0, 1, 2, 2>>>>
  /\ EdgeCount(res.reversed.edges, <<0, 1>>) = 2
  /\ EdgeCount(res.graph.edges, <<0, 1>>) = 1
  /\ EdgeCount(res.graph.edges, <<2, 2>>) = 1

ValidCodes == {mapping[q][1] : q \in 1..Len(mapping)}

\* The raw codes of the k-th trajectory of a directory are all recognized.
RawValid(dir, k) ==
  \A n \in 1..Len(TrajCodes(dir, k)) : TrajCodes(dir, k)[n][1] \in ValidCodes

\* C4: a trajectory with a raw node-type code outside {0, 1, 3} is never
\* encoded: no encoding of it is kept, and no construction that read it
\* runs to its end.
C4_InvalidCodeRejected ==
  /\ \A k \in 1..Len(node_type) : RawValid(data_dir, k)
  /\ pc = "done" => \A k \in 1..num_samples : RawValid(data_dir, k)

(***************************************************************************)
(* _one_hot_encode on its own, one turn of its loop at a time.             *)
(***************************************************************************)
SampleCodes == {0, 1, 2, 3, 255}

NodeTypes == UNION {[1..n -> {<<c>> : c \in SampleCodes}] : n \in 1..MaxNodes}

InitEncode ==
  /\ NoDataset
  /\ fn = "node_type" /\ arg \in NodeTypes /\ res = <<>>

\* Lines 361-365.
EncodeStart ==
  /\ fn = "node_type"
  /\ fn' = "mapping"
  /\ res' = [node_type |-> squeeze(arg), j |-> 0,
             mapped |-> full_like(squeeze(arg), 0 - 1)]
  /\ UNCHANGED <<mainvars, arg>>

\* Lines 366-367, one item of mapping.
EncodeTurn ==
  /\ fn = "mapping"
  /\ res.j < Len(mapping)
  /\ res' = [res EXCEPT !.j = @ + 1,
                        !.mapped = MapItem(res.node_type, @, mapping[res.j + 1])]
  /\ UNCHANGED <<mainvars, fn, arg>>

\* Lines 368-371.
EncodeEnd ==
  /\ fn = "mapping"
  /\ res.j = Len(mapping)
  /\ fn' = "encoded"
  /\ res' = EncodeMapped(res.mapped)
  /\ UNCHANGED <<mainvars, arg>>

NextEncode ==
  \/ EncodeStart
  \/ EncodeTurn
  \/ EncodeEnd

SpecEncode == InitEncode /\ [][NextEncode]_vars

AllValid(node_type_in) == \A n \in 1..Len(node_type_in) : node_type_in[n][1] \in ValidCodes

\* The dense index of a raw code: 0 -> 0, 1 -> 1, 3 -> 2.
Dense(code) == IF code = 0 THEN 0 ELSE IF code = 1 THEN 1 ELSE 2

\* C5: on codes in {0, 1, 3} the encoder returns, node by node, 3
\* categories that sum to 1 with the 1 at the dense index of the code; a
\* turn of the remapping loop leaves what earlier turns assigned: after j
\* turns a node holds the dense index of its code if one of the first j
\* items maps it, and the fill value otherwise.
C5_OneHotBijection ==
  /\ fn = "mapping" =>
       \A n \in 1..Len(res.mapped) :
         IF \E q \in 1..res.j : mapping[q][1] = res.node_type[n]
         THEN res.mapped[n] = Dense(res.node_type[n])
         ELSE res.mapped[n] = 255
  /\ (fn = "encoded" /\ AllValid(arg)) =>
       /\ res.ok
       /\ res = _one_hot_encode(arg)
       /\ Len(res.val) = Len(arg)
       /\ \A n \in 1..Len(arg) :
            /\ Len(res.val[n]) = 3
            /\ res.val[n][1] + res.val[n][2] + res.val[n][3] = 1
            /\ res.val[n][Dense(arg[n][1]) + 1] = 1
  /\ \A a \in ValidCodes, b \in ValidCodes : Dense(a) = Dense(b) => a = b

\* The three codes, the last first, encoded.
C5_Witness ==
  /\ fn = "encoded"
  /\ arg = <<<<3>>, <<1>>, <<0>>>>
  /\ res.ok
  /\ res.val = <<<<0, 0, 1>>, <<0, 1, 0>>, <<1, 0, 0>>>>

(***************************************************************************)
(* Feature Deriver on its own: lines 141-146 on one trajectory of one node *)
(* with one coordinate.                                                    *)
(***************************************************************************)
\* 0, 3, 5, -5 and the float32 nearest to 1/10.
SampleFloats == {Zero, FromInt(3), FromInt(5), FNeg(FromInt(5)),
                 FDiv(FromInt(1), FromInt(10))}

Trajectories ==
  {[world_pos |-> [t \in 1..TrajectoryLength |-> <<<<w[t]>>>>],
    stress |-> [t \in 1..TrajectoryLength |-> <<<<FromInt(t * k)>>>>]] :
     w \in [1..TrajectoryLength -> SampleFloats], k \in 1..2}

InitDerive ==
  /\ NoDataset
  /\ fn = "trajectory"
  /\ arg \in {[data |-> d, num_steps |-> steps] :
                d \in Trajectories, steps \in 2..MaxSteps}
  /\ res = <<>>

\* Line 141.
DeriveTruncate ==
  /\ fn = "trajectory"
  /\ fn' = "data_np"
  /\ res' = TruncateAll(arg.data, arg.num_steps)
  /\ UNCHANGED <<mainvars, arg>>

\* Lines 142-145.
DeriveFeatures ==
  /\ fn = "data_np"
  /\ fn' = "derived"
  /\ res' = [data_np |-> res,
             features |-> [world_pos |-> _drop_last(res["world_pos"])],
             targets |-> [world_pos |-> _push_forward_diff(res["world_pos"]),
                          stress |-> _push_forward(res["stress"])]]
  /\ UNCHANGED <<mainvars, arg>>

NextDerive ==
  \/ DeriveTruncate
  \/ DeriveFeatures

SpecDerive == InitDerive /\ [][NextDerive]_vars

FAbs(a) == IF a.k = "fin" /\ a.m < 0 THEN FNeg(a) ELSE a

FLeq(a, b) == a = b \/ FLess(a, b)

\* b - a is a float32: a is 0, or a and b have the same sign and each is
\* at most twice the other.
ExactDiff(a, b) ==
  \/ IsZero(a)
  \/ /\ a.k = "fin" /\ b.k = "fin"
     /\ Sgn(a.m) = Sgn(b.m)
     /\ FLeq(FAbs(a), FMul(FromInt(2), FAbs(b)))
     /\ FLeq(FAbs(b), FMul(FromInt(2), FAbs(a)))

\* The first three equalities of C6 and the count of the time steps.
DerivedAsStated ==
  LET S == arg.num_steps
      world_pos == arg.data.world_pos
      stress == arg.data.stress
  IN /\ Len(res.features["world_pos"]) = S - 1
     /\ Len(res.targets["world_pos"]) = S - 1
     /\ Len(res.targets["stress"]) = S - 1
     /\ \A t \in 1..(S - 1) :
          /\ res.features["world_pos"][t] = world_pos[t]
          /\ res.targets["world_pos"][t][1][1]
               = FSub(world_pos[t + 1][1][1], world_pos[t][1][1])
          /\ res.targets["stress"][t] = stress[t + 1]

\* C6, as the code has it: the derived arrays hold S-1 time steps, with
\* features.world_pos[t] = world_pos[t], targets.world_pos[t] the float32
\* difference world_pos[t+1] - world_pos[t] and targets.stress[t] =
\* stress[t+1]; features.world_pos[t] + targets.world_pos[t] is
\* world_pos[t+1] wherever that difference is a float32.
C6_DerivedArrays ==
  fn = "derived" =>
    /\ DerivedAsStated
    /\ \A t \in 1..(arg.num_steps - 1) :
         ExactDiff(arg.data.world_pos[t][1][1], arg.data.world_pos[t + 1][1][1]) =>
           FAdd(res.features["world_pos"][t][1][1], res.targets["world_pos"][t][1][1])
             = arg.data.world_pos[t + 1][1][1]

\* A trajectory cut to 3 of its 4 steps, 3 -> 5 -> 3: both differences, 2
\* and -2, are derived.
C6_Witness ==
  /\ fn = "derived"
  /\ arg.num_steps = 3
  /\ arg.data.world_pos[1][1][1] = FromInt(3)
  /\ arg.data.world_pos[2][1][1] = FromInt(5)
  /\ arg.data.world_pos[3][1][1] = FromInt(3)
  /\ Len(res.targets["world_pos"]) = 2
  /\ res.targets["world_pos"][1][1][1] = FromInt(2)
  /\ res.targets["world_pos"][2][1][1] = FromInt(0 - 2)
  /\ res.targets["stress"][2] = arg.data.stress[3]

\* C6 as stated: features.world_pos[t] + targets.world_pos[t] is
\* world_pos[t+1] at every step.
C6_SumGivesNext ==
  fn = "derived" =>
    /\ DerivedAsStated
    /\ \A t \in 1..(arg.num_steps - 1) :
         FAdd(res.features["world_pos"][t][1][1], res.targets["world_pos"][t][1][1])
           = arg.data.world_pos[t + 1][1][1]

(***************************************************************************)
(* The constructor: statistics and phases.                                 *)
(***************************************************************************)
\* The constructor has obtained the edge (node) statistics.
PastEdgeStats == pc \in {"edge_norm", "feat_loop", "node_stats", "node_norm", "done"}

PastNodeStats == pc \in {"node_norm", "done"}

BeforeEdgeStats == pc \in {"graph_loop", "edge_stats"}

BeforeNodeStats == pc \in {"graph_loop", "edge_stats", "edge_norm", "feat_loop",
                           "node_stats"}

\* C7: on the train split the edge and the node statistics are each
\* computed once and saved once, the file holding what was computed, and
\* nothing is loaded; on another split each is loaded once, the dataset
\* holds what the file holds, and nothing is computed or saved.
C7_StatsOnce ==
  /\ split = "train" =>
       /\ hist.edge_loaded = 0 /\ hist.node_loaded = 0
       /\ hist.edge_computed = hist.edge_saved
       /\ hist.node_computed = hist.node_saved
       /\ hist.edge_computed <= 1 /\ hist.node_computed <= 1
       /\ BeforeEdgeStats => hist.edge_computed = 0
       /\ BeforeNodeStats => hist.node_computed = 0
       /\ PastEdgeStats => hist.edge_computed = 1
       /\ PastNodeStats => hist.node_computed = 1
       /\ hist.edge_saved = 1 => files["edge_stats.json"] = edge_stats
       /\ hist.node_saved = 1 => files["node_stats.json"] = node_stats
  /\ split # "train" =>
       /\ hist.edge_computed = 0 /\ hist.node_computed = 0
       /\ hist.edge_saved = 0 /\ hist.node_saved = 0
       /\ hist.edge_loaded <= 1 /\ hist.node_loaded <= 1
       /\ BeforeEdgeStats => hist.edge_loaded = 0
       /\ BeforeNodeStats => hist.node_loaded = 0
       /\ PastEdgeStats => hist.edge_loaded = 1
       /\ PastNodeStats => hist.node_loaded = 1
       /\ hist.edge_loaded = 1 => edge_stats = files["edge_stats.json"]
       /\ hist.node_loaded = 1 => node_stats = files["node_stats.json"]
       /\ \E kind \in StoredKinds(split) : files = StoredFiles(kind)

\* A construction on the eval split has run to its end on loaded files.
C7_Witness ==
  /\ pc = "done"
  /\ split = "eval"
  /\ num_samples = MaxSamples
  /\ hist.edge_loaded = 1 /\ hist.node_loaded = 1
  /\ edge_stats = EdgeStatsFile(Dim + 1)
  /\ node_stats = NodeStatsFile(Dim)

\* The place of a position of the constructor in the order of its steps.
Rank(p) ==
  IF p = "graph_loop" THEN 1 ELSE IF p = "edge_stats" THEN 2
  ELSE IF p = "edge_norm" THEN 3 ELSE IF p = "feat_loop" THEN 4
  ELSE IF p = "node_stats" THEN 5 ELSE IF p = "node_norm" THEN 6
  ELSE IF p = "done" THEN 7 ELSE 8

\* The k-th trajectory as the loops read it, and what they derive from it
\* before any normalization.
DataOf(k) == TruncateAll(get_next(data_dir, k), num_steps)

GraphOf(k) ==
  add_edge_features(create_graph(cell_to_adj(DataOf(k)["cells"][1]).src,
                                 cell_to_adj(DataOf(k)["cells"][1]).dst),
                    DataOf(k)["mesh_pos"][1])

FeaturesOf(k) == [world_pos |-> _drop_last(DataOf(k)["world_pos"])]

TargetsOf(k) == [world_pos |-> _push_forward_diff(DataOf(k)["world_pos"]),
                 stress |-> _push_forward(DataOf(k)["stress"])]

AllAre(counts, n) == \A k \in 1..Len(counts) : counts[k] = n

PhaseOrder ==
  \* the feature phase starts when the graph phase is complete
  /\ Rank(pc) <= 3 => node_features = <<>> /\ node_targets = <<>>
                       /\ node_stats = EmptyDict /\ hist.iterators = 1
  /\ (Rank(pc) \in 4..7 \/ node_features # <<>>) =>
       /\ Len(graphs) = num_samples
       /\ edge_stats # EmptyDict
       /\ AllAre(hist.edge_norm, 1)
  \* the statistics are taken when every trajectory is there, un-normalized
  /\ pc = "edge_stats" => Len(graphs) = num_samples /\ AllAre(hist.edge_norm, 0)
  /\ pc = "node_stats" =>
       /\ Len(node_features) = num_samples /\ Len(node_targets) = num_samples
       /\ AllAre(hist.feat_norm, 0) /\ AllAre(hist.diff_norm, 0)
       /\ AllAre(hist.stress_norm, 0)
  /\ (split = "train" /\ pc = "edge_norm" /\ i = 0) =>
       edge_stats = _get_edge_stats([k \in 1..num_samples |-> GraphOf(k)], num_samples)
  /\ (split = "train" /\ pc = "node_norm" /\ i = 0) =>
       node_stats = _get_node_stats([k \in 1..num_samples |-> FeaturesOf(k)],
                                    [k \in 1..num_samples |-> TargetsOf(k)],
                                    num_samples)
  \* nothing is normalized before its statistics are there, nor twice
  /\ \A k \in 1..Len(hist.edge_norm) :
       /\ hist.edge_norm[k] \in {0, 1}
       /\ hist.edge_norm[k] = 1 => hist.edge_computed + hist.edge_loaded = 1
  /\ \A k \in 1..Len(hist.feat_norm) :
       /\ hist.feat_norm[k] \in {0, 1} /\ hist.diff_norm[k] \in {0, 1}
       /\ hist.stress_norm[k] \in {0, 1}
       /\ hist.feat_norm[k] = 1 => hist.node_computed + hist.node_loaded = 1
  /\ pc = "done" =>
       /\ Len(hist.edge_norm) = num_samples /\ AllAre(hist.edge_norm, 1)
       /\ Len(hist.feat_norm) = num_samples /\ AllAre(hist.feat_norm, 1)
       /\ AllAre(hist.diff_norm, 1) /\ AllAre(hist.stress_norm, 1)

\* A step never goes back to an earlier position, leaves the statistics
\* it finds as they are, and does nothing to the dataset's features once
\* the construction has ended.
PhaseStep ==
  /\ Rank(pc') >= Rank(pc)
  /\ edge_stats # EmptyDict => edge_stats' = edge_stats
  /\ node_stats # EmptyDict => node_stats' = node_stats
  /\ pc = "done" => hist' = hist /\ node_features' = node_features
                     /\ node_targets' = node_targets

\* C10: the constructor never steps back to an earlier position; the
\* feature phase starts when all graphs are built and their edge features
\* normalized; on the train split the statistics of a group are those of
\* the un-normalized values of all num_samples trajectories, taken before
\* any value of the group is normalized, and kept from then on; and a
\* construction that ends has normalized every edge feature, node feature
\* and node target once.
C10_TwoPhases ==
  /\ []PhaseOrder
  /\ [][PhaseStep]_vars

\* A train construction of MaxSamples trajectories has run to its end.
C10_Witness ==
  /\ pc = "done"
  /\ split = "train"
  /\ num_samples = MaxSamples
  /\ hist.iterators = 2
  /\ AllAre(hist.edge_norm, 1) /\ AllAre(hist.stress_norm, 1)

(***************************************************************************)
(* Normalizer on its own.                                                  *)
(***************************************************************************)
\* Two rows of the given width, the channels a+1, a+2, ... and twice that.
Rows(width, a) == [n \in 1..2 |-> [c \in 1..width |-> FromInt(n * (c + a))]]

NormalizerInputs ==
  {[kind |-> kind, x |-> Rows(wx, a), mu |-> Const(wm, b), std |-> Const(ws, s)] :
     kind \in {"node", "edge"}, wx \in 1..MaxWidth, wm \in 1..MaxWidth,
     ws \in 1..MaxWidth, a \in 0..2, b \in 0..1, s \in {0, 2, 4}}

InitNormalize ==
  /\ NoDataset
  /\ fn = "input" /\ arg \in NormalizerInputs /\ res = <<>>

\* normalize_node on a tensor of one time step.
CallNormalizeNode ==
  /\ fn = "input"
  /\ arg.kind = "node"
  /\ fn' = "returned"
  /\ res' = normalize_node(<<arg.x>>, arg.mu, arg.std)
  /\ UNCHANGED <<mainvars, arg>>

\* normalize_edge on a graph with the tensor as its edge data.
CallNormalizeEdge ==
  /\ fn = "input"
  /\ arg.kind = "edge"
  /\ fn' = "returned"
  /\ res' = normalize_edge([dgl_graph(<<0, 1>>, <<1, 0>>) EXCEPT
                              !.edata = DictSet(@, "x", arg.x)],
                           arg.mu, arg.std)
  /\ UNCHANGED <<mainvars, arg>>

NextNormalize ==
  \/ CallNormalizeNode
  \/ CallNormalizeEdge

SpecNormalize == InitNormalize /\ [][NextNormalize]_vars

\* (x - mean) / std, channel by channel, of the rows of x.
Standardized(x, mean, std) ==
  [n \in 1..Len(x) |-> [c \in 1..Len(x[n]) |-> FDiv(FSub(x[n][c], mean[c]), std[c])]]

\* C8: normalize_node and normalize_edge raise the shape-mismatch error
\* and return nothing when the trailing dimension of the input differs
\* from that of the mean or of the std; when the three are equal they
\* return (x - mean) / std.
C8_ShapeChecked ==
  fn = "returned" =>
    IF Len(arg.x[1]) # Len(arg.mu) \/ Len(arg.x[1]) # Len(arg.std)
    THEN ~res.ok /\ res.err = "AssertionError" /\ res.val = <<>>
    ELSE /\ res.ok
         /\ res.err = "none"
         /\ res.val = IF arg.kind = "node"
                      THEN <<Standardized(arg.x, arg.mu, arg.std)>>
                      ELSE Standardized(arg.x, arg.mu, arg.std)

\* normalize_node has raised on a std wider than the input and the mean.
C8_Witness ==
  /\ fn = "returned"
  /\ arg.kind = "node"
  /\ Len(arg.x[1]) = 2 /\ Len(arg.mu) = 2 /\ Len(arg.std) = 3
  /\ ~res.ok
  /\ res.err = "AssertionError"

(***************************************************************************)
(* Streaming Statistics Engine on its own, on constant data.               *)
(***************************************************************************)
SampleValues == {0, 1, 2, 3, 5, 10}

\* A tensor of the given rows and width holding v everywhere.
ConstRows(rows, width, v) == [n \in 1..rows |-> [c \in 1..width |-> FromInt(v)]]

ConstGraph(rows, v) ==
  [dgl_graph([j \in 1..rows |-> 0], [j \in 1..rows |-> 1]) EXCEPT
     !.edata = DictSet(@, "x", ConstRows(rows, Dim + 1, v))]

InitStats ==
  /\ NoDataset
  /\ fn = "dataset"
  /\ arg \in {[group |-> g, num |-> n, rows |-> r, v |-> v] :
                g \in {"edge", "node"}, n \in 1..MaxStatSamples, r \in 1..2,
                v \in SampleValues}
  /\ res = <<>>

\* _get_edge_stats on num graphs whose edge features all hold v.
CallEdgeStats ==
  /\ fn = "dataset"
  /\ arg.group = "edge"
  /\ fn' = "computed"
  /\ res' = _get_edge_stats([k \in 1..arg.num |-> ConstGraph(arg.rows, arg.v)], arg.num)
  /\ UNCHANGED <<mainvars, arg>>

\* _get_node_stats on num trajectories of one time step whose features
\* and targets all hold v.
CallNodeStats ==
  /\ fn = "dataset"
  /\ arg.group = "node"
  /\ fn' = "computed"
  /\ res' = _get_node_stats(
              [k \in 1..arg.num |-> [world_pos |-> <<ConstRows(arg.rows, Dim, arg.v)>>]],
              [k \in 1..arg.num |-> [world_pos |-> <<ConstRows(arg.rows, Dim, arg.v)>>,
                                      stress |-> <<ConstRows(arg.rows, 1, arg.v)>>]],
              arg.num)
  /\ UNCHANGED <<mainvars, arg>>

NextStats ==
  \/ CallEdgeStats
  \/ CallNodeStats

SpecStats == InitStats /\ [][NextStats]_vars

\* a is a number within 1/100 of the integer v.
Near(a, v) ==
  /\ a.k = "fin"
  /\ FLeq(FAbs(FSub(a, FromInt(v))), FDiv(FromInt(1), FromInt(100)))

AllNear(t, v) == \A c \in 1..Len(t) : Near(t[c], v)

\* C9: on N trajectories whose values all equal v, every computed mean is
\* v and every computed standard deviation is 0, up to a tolerance of
\* 1/100.
C9_ConstantStats ==
  fn = "computed" =>
    IF arg.group = "edge"
    THEN AllNear(res["edge_mean"], arg.v) /\ AllNear(res["edge_std"], 0)
    ELSE /\ AllNear(res["world_pos_mean"], arg.v) /\ AllNear(res["world_pos_std"], 0)
         /\ AllNear(res["stress_mean"], arg.v) /\ AllNear(res["stress_std"], 0)
         /\ AllNear(res["world_pos_diff_mean"], arg.v)
         /\ AllNear(res["world_pos_diff_std"], 0)

(***************************************************************************)
(* Lookups after the construction: what they write.                        *)
(***************************************************************************)
\* The node input and the node target of step tidx of trajectory gidx
\* (both counted from 0), as lines 186-195 form them.
NodeInput(gidx, tidx) ==
  CatRows(node_features[gidx + 1]["world_pos"][tidx + 1], ToFloat(node_type[gidx + 1]))

NodeTarget(gidx, tidx) ==
  CatRows(node_targets[gidx + 1]["world_pos"][tidx + 1],
          node_targets[gidx + 1]["stress"][tidx + 1])

\* The graph the last lookup returned holds that lookup's sample in x and
\* y; no graph holds node data under another key than x, y and mesh_pos,
\* nor edge data under another key than x.
LookupWrites ==
  /\ pc = "done" =>
       \A k \in 1..Len(graphs) :
         /\ DOMAIN graphs[k].edata = {"x"}
         /\ DOMAIN graphs[k].ndata \subseteq
              (IF split = "train" THEN {"x", "y"} ELSE {"x", "y", "mesh_pos"})
  /\ ret.called =>
       /\ DOMAIN graphs[ret.graph].ndata =
            (IF split = "train" THEN {"x", "y"} ELSE {"x", "y", "mesh_pos"})
       /\ graphs[ret.graph].ndata["x"] = NodeInput(ret.gidx, ret.tidx)
       /\ graphs[ret.graph].ndata["y"] = NodeTarget(ret.gidx, ret.tidx)
       /\ split # "train" => graphs[ret.graph].ndata["mesh_pos"] = mesh_pos[ret.graph]

\* A step taken after the construction leaves all but the node data of the
\* graph it returns as it was.
LookupFrame ==
  pc = "done" =>
    /\ pc' = "done"
    /\ node_features' = node_features /\ node_targets' = node_targets
    /\ node_type' = node_type /\ noise_mask' = noise_mask
    /\ cells' = cells /\ mesh_pos' = mesh_pos /\ rollout_mask' = rollout_mask
    /\ edge_stats' = edge_stats /\ node_stats' = node_stats /\ files' = files
    /\ Len(graphs') = Len(graphs)
    /\ \A k \in 1..Len(graphs) :
         /\ graphs'[k].edges = graphs[k].edges
         /\ graphs'[k].num_nodes = graphs[k].num_nodes
         /\ graphs'[k].edata = graphs[k].edata
         /\ k # ret'.graph => graphs'[k] = graphs[k]

\* C12: after the construction a lookup changes only the node buffers x
\* and y (and mesh_pos off the train split) of the graph of the trajectory
\* it resolves to: the edge lists and the normalized edge features of all
\* graphs, the stored node features and targets, the encodings, the
\* statistics and the graphs of the other trajectories stay as they are.
C12_LookupFrame ==
  /\ []LookupWrites
  /\ [][LookupFrame]_vars

\* Off the train split the second trajectory has been looked up after the
\* first: both graphs hold node data and their edge data is still the
\* normalized edge features alone.
C12_Witness ==
  /\ pc = "done" /\ split = "eval"
  /\ ret.called /\ ret.graph = 2
  /\ "x" \in DOMAIN graphs[1].ndata
  /\ "mesh_pos" \in DOMAIN graphs[2].ndata
  /\ graphs[1].ndata["x"] # graphs[2].ndata["x"]
  /\ hist.edge_norm = <<1, 1>>

(***************************************************************************)
(* The lists of the dataset, entry by entry.                               *)
(***************************************************************************)
\* What the graph loop derives from the node types of the k-th trajectory.
NodeTypeOf(k) == to_uint8(DataOf(k)["node_type"][1])

EncodingOf(k) == _one_hot_encode(NodeTypeOf(k)).val

\* A group of the k-th trajectory, normalized or not as the count says.
GroupOf(raw, count, mean, std) ==
  IF count = 0 THEN raw ELSE normalize_node(raw, node_stats[mean], node_stats[std]).val

\* The entries of every list come from the trajectory of their position:
\* checked on the lists as the construction leaves them.
ListsFromTrajectories ==
  /\ \A k \in 1..Len(graphs) :
       /\ graphs[k].edges = GraphOf(k).edges
       /\ graphs[k].num_nodes = GraphOf(k).num_nodes
  /\ \A k \in 1..Len(node_type) :
       /\ node_type[k] = EncodingOf(k)
       /\ noise_mask[k] = NoiseMask(NodeTypeOf(k))
  /\ \A k \in 1..Len(mesh_pos) :
       /\ mesh_pos[k] = DataOf(k)["mesh_pos"][1]
       /\ cells[k] = DataOf(k)["cells"][1]
       /\ rollout_mask[k] = _get_rollout_mask(NodeTypeOf(k))
  /\ \A k \in 1..Len(node_features) :
       /\ node_features[k]["world_pos"] =
            GroupOf(FeaturesOf(k)["world_pos"], hist.feat_norm[k],
                    "world_pos_mean", "world_pos_std")
       /\ node_targets[k]["world_pos"] =
            GroupOf(TargetsOf(k)["world_pos"], hist.diff_norm[k],
                    "world_pos_diff_mean", "world_pos_diff_std")
       /\ node_targets[k]["stress"] =
            GroupOf(TargetsOf(k)["stress"], hist.stress_norm[k],
                    "stress_mean", "stress_std")

\* The lists have one entry per trajectory, and the entries of one
\* position agree on the number of nodes.
ListsComplete ==
  /\ Len(graphs) = num_samples /\ Len(node_type) = num_samples
  /\ Len(node_features) = num_samples /\ Len(node_targets) = num_samples
  /\ Len(noise_mask) = num_samples
  /\ Len(mesh_pos) = (IF split = "train" THEN 0 ELSE num_samples)
  /\ Len(cells) = Len(mesh_pos) /\ Len(rollout_mask) = Len(mesh_pos)
  /\ \A k \in 1..num_samples :
       /\ Len(node_type[k]) = graphs[k].num_nodes
       /\ \A t \in 1..(num_steps - 1) :
            /\ Len(node_features[k]["world_pos"][t]) = graphs[k].num_nodes
            /\ Len(node_targets[k]["world_pos"][t]) = graphs[k].num_nodes
            /\ Len(node_targets[k]["stress"][t]) = graphs[k].num_nodes

\* A lookup pairs the graph of a trajectory with the stored node data, and
\* off the train split the cells and rollout mask, of the same position.
LookupPaired ==
  /\ ret.graph = ret.gidx + 1
  /\ graphs[ret.graph].ndata["x"] =
       CatRows(node_features[ret.gidx + 1]["world_pos"][ret.tidx + 1],
               ToFloat(node_type[ret.gidx + 1]))
  /\ graphs[ret.graph].ndata["y"] =
       CatRows(node_targets[ret.gidx + 1]["world_pos"][ret.tidx + 1],
               node_targets[ret.gidx + 1]["stress"][ret.tidx + 1])
  /\ split # "train" =>
       /\ ret.cells = cells[ret.gidx + 1]
       /\ ret.rollout_mask = rollout_mask[ret.gidx + 1]
       /\ graphs[ret.graph].ndata["mesh_pos"] = mesh_pos[ret.gidx + 1]

ListsAligned ==
  /\ Len(noise_mask) = Len(node_type)
  /\ Len(node_targets) = Len(node_features)
  /\ Len(cells) = Len(mesh_pos) /\ Len(rollout_mask) = Len(mesh_pos)
  /\ ~ret.called => ListsFromTrajectories
  /\ pc = "done" => ListsComplete
  /\ ret.called => LookupPaired

\* Once built, no list and no edge list of a graph changes any more.
ListsKept ==
  pc = "done" =>
    /\ pc' = "done"
    /\ node_type' = node_type /\ noise_mask' = noise_mask
    /\ node_features' = node_features /\ node_targets' = node_targets
    /\ mesh_pos' = mesh_pos /\ cells' = cells /\ rollout_mask' = rollout_mask
    /\ [k \in 1..Len(graphs') |-> graphs'[k].edges] =
         [k \in 1..Len(graphs) |-> graphs[k].edges]
    /\ [k \in 1..Len(graphs') |-> graphs'[k].num_nodes] =
         [k \in 1..Len(graphs) |-> graphs[k].num_nodes]

\* C13: with a source that yields the same trajectories in the same order
\* on both passes, the k-th graph, encoding, noise mask, node features and
\* node targets all come from the k-th trajectory; after the construction
\* each of these lists has num_samples entries, the mesh_pos, cells and
\* rollout_mask lists have num_samples entries off the train split and
\* none on it, and none of them changes any more; and a lookup returns the
\* graph of a trajectory with the node data of that trajectory.
C13_ListsAligned ==
  /\ []ListsAligned
  /\ [][ListsKept]_vars

\* Off the train split a sample of the last of MaxSamples trajectories,
\* whose mesh is not that of the first, has been looked up.
C13_Witness ==
  /\ pc = "done" /\ split = "test"
  /\ num_samples = MaxSamples
  /\ Len(graphs) = MaxSamples /\ Len(node_features) = MaxSamples
  /\ Len(cells) = MaxSamples
  /\ ret.called /\ ret.gidx = MaxSamples - 1
  /\ graphs[ret.graph].edges # graphs[1].edges
  /\ ret.cells = cells[MaxSamples]

(***************************************************************************)
(* Concurrent lookups: threads of one process call __getitem__ on one      *)
(* constructed dataset.  fn says whether the threads run, arg holds the    *)
(* flat index of each thread and res its position in __getitem__ with its  *)
(* locals gidx and tidx.  An assignment to graph.ndata is one step: the    *)
(* interpreter switches threads between the statements, not inside them.   *)
(***************************************************************************)
Threads == {"a", "b", "c"}

lookupframe == <<data_dir, split, num_samples, num_steps, length, files, pc, i, err,
                 dataset_iterator, cells, node_type, noise_mask, rollout_mask,
                 mesh_pos, edge_stats, node_stats, node_features, node_targets,
                 hist, ret, fn, arg>>

InitConcurrent ==
  /\ \E sp \in {"train", "test"}, ns \in 1..MaxSamples, steps \in 2..MaxSteps :
       InitWith("plate", sp, ns, steps, StoredFiles("trained"))
  /\ FnIdle

\* The threads are started, each with a flat index; the threads being
\* alike, their indices are taken in order.
StartLookups ==
  /\ pc = "done"
  /\ fn = "none"
  /\ fn' = "lookups"
  /\ \E idxs \in [Threads -> 0..(length - 1)] :
       /\ idxs["a"] <= idxs["b"] /\ idxs["b"] <= idxs["c"]
       /\ arg' = idxs
  /\ res' = [t \in Threads |-> [at |-> "call", gidx |-> 0, tidx |-> 0]]
  /\ UNCHANGED mainvars

\* Lines 183-196: the indices are resolved, the node input and target are
\* put together from lists no lookup writes, and x is assigned.
WriteX(t) ==
  /\ fn = "lookups"
  /\ res[t].at = "call"
  /\ \E gidx \in {GraphIndex(arg[t])} :
     \E tidx \in {StepIndex(arg[t])} :
        /\ graphs' = [graphs EXCEPT ![gidx + 1].ndata =
                        DictSet(@, "x", NodeInput(gidx, tidx))]
        /\ res' = [res EXCEPT ![t] = [at |-> "x", gidx |-> gidx, tidx |-> tidx]]
  /\ UNCHANGED lookupframe

\* A y that lands in the node data of every graph.
WriteYShared(t) ==
  /\ fn = "lookups"
  /\ res[t].at = "x"
  /\ graphs' = [k \in 1..Len(graphs) |->
                  [graphs[k] EXCEPT !.ndata =
                     DictSet(@, "y", NodeTarget(res[t].gidx, res[t].tidx))]]
  /\ res' = [res EXCEPT ![t].at = "y"]
  /\ UNCHANGED lookupframe

\* Line 197.
WriteY(t) ==
  /\ fn = "lookups"
  /\ res[t].at = "x"
  /\ graphs' = [graphs EXCEPT ![res[t].gidx + 1].ndata =
                  DictSet(@, "y", NodeTarget(res[t].gidx, res[t].tidx))]
  /\ res' = [res EXCEPT ![t].at = "y"]
  /\ UNCHANGED lookupframe

\* Lines 198-199.
ReturnTrain(t) ==
  /\ fn = "lookups"
  /\ res[t].at = "y"
  /\ split = "train"
  /\ res' = [res EXCEPT ![t].at = "returned"]
  /\ UNCHANGED <<mainvars, fn, arg>>

\* Line 201.
WriteMeshPos(t) ==
  /\ fn = "lookups"
  /\ res[t].at = "y"
  /\ split # "train"
  /\ graphs' = [graphs EXCEPT ![res[t].gidx + 1].ndata =
                  DictSet(@, "mesh_pos", mesh_pos[res[t].gidx + 1])]
  /\ res' = [res EXCEPT ![t].at = "mesh_pos"]
  /\ UNCHANGED lookupframe

\* Lines 202-204.
ReturnRollout(t) ==
  /\ fn = "lookups"
  /\ res[t].at = "mesh_pos"
  /\ res' = [res EXCEPT ![t].at = "returned"]
  /\ UNCHANGED <<mainvars, fn, arg>>

NextConcurrent ==
  \/ BuildGraph
  \/ ComputeEdgeStats
  \/ LoadEdgeStats
  \/ NormalizeEdge
  \/ BuildFeatures
  \/ ComputeNodeStats
  \/ LoadNodeStats
  \/ NormalizeNode
  \/ StartLookups
  \/ \E t \in Threads : WriteX(t)
  \/ \E t \in Threads : WriteY(t)
  \/ \E t \in Threads : ReturnTrain(t)
  \/ \E t \in Threads : WriteMeshPos(t)
  \/ \E t \in Threads : ReturnRollout(t)

SpecConcurrent == InitConcurrent /\ [][NextConcurrent]_vars

\* The threads whose flat index resolves to the trajectory of t's.
SameTrajectory(t) == {u \in Threads : GraphIndex(arg[u]) = GraphIndex(arg[t])}

HasWritten(t, key) ==
  CASE key = "x" -> res[t].at # "call"
    [] key = "y" -> res[t].at \in {"y", "mesh_pos", "returned"}
    [] OTHER -> res[t].at \in {"mesh_pos", "returned"}

NodeDataOf(t) == graphs[GraphIndex(arg[t]) + 1].ndata

\* C11: under every interleaving, a lookup whose flat index resolves to a
\* trajectory no other running lookup resolves to finds in its graph, from
\* its own assignment on and after every later step of the others, exactly
\* the node input x and node target y of its own (trajectory, step);
\* lookups that resolve to one trajectory write the x and y of one shared
\* graph object, which hold what one of them wrote.
C11_DisjointLookupsSafe ==
  fn = "lookups" =>
    \A t \in Threads :
      /\ res[t].at # "call" =>
           /\ res[t].gidx = GraphIndex(arg[t])
           /\ res[t].tidx = StepIndex(arg[t])
      /\ \A u \in SameTrajectory(t) :
           (res[t].at # "call" /\ res[u].at # "call") => res[u].gidx = res[t].gidx
      /\ \A key \in {"x", "y"} :
           HasWritten(t, key) =>
             /\ key \in DOMAIN NodeDataOf(t)
             /\ \E u \in SameTrajectory(t) :
                  /\ HasWritten(u, key)
                  /\ NodeDataOf(t)[key] =
                       (IF key = "x"
                        THEN NodeInput(GraphIndex(arg[u]), StepIndex(arg[u]))
                        ELSE NodeTarget(GraphIndex(arg[u]), StepIndex(arg[u])))
      /\ SameTrajectory(t) = {t} =>
           /\ HasWritten(t, "x") =>
                NodeDataOf(t)["x"] = NodeInput(GraphIndex(arg[t]), StepIndex(arg[t]))
           /\ HasWritten(t, "y") =>
                NodeDataOf(t)["y"] = NodeTarget(GraphIndex(arg[t]), StepIndex(arg[t]))
           /\ HasWritten(t, "mesh_pos") /\ split # "train" =>
                /\ "mesh_pos" \in DOMAIN NodeDataOf(t)
                /\ NodeDataOf(t)["mesh_pos"] = mesh_pos[GraphIndex(arg[t]) + 1]

\* All three lookups have returned: c, alone on its trajectory, has its
\* own x and y; a and b, on two steps of one trajectory, share a graph
\* that holds the x of a with the y of b, the sample of neither.
C11_Witness ==
  /\ fn = "lookups"
  /\ \A t \in Threads : res[t].at = "returned"
  /\ SameTrajectory("c") = {"c"}
  /\ SameTrajectory("a") = {"a", "b"}
  /\ NodeDataOf("c")["x"] = NodeInput(GraphIndex(arg["c"]), StepIndex(arg["c"]))
  /\ NodeDataOf("c")["y"] = NodeTarget(GraphIndex(arg["c"]), StepIndex(arg["c"]))
  /\ NodeDataOf("a")["x"] = NodeInput(GraphIndex(arg["a"]), StepIndex(arg["a"]))
  /\ NodeDataOf("a")["x"] # NodeInput(GraphIndex(arg["b"]), StepIndex(arg["b"]))
  /\ NodeDataOf("a")["y"] = NodeTarget(GraphIndex(arg["b"]), StepIndex(arg["b"]))
  /\ NodeDataOf("a")["y"] # NodeTarget(GraphIndex(arg["a"]), StepIndex(arg["a"]))

====
